---- MODULE Spec2Model ----
(***************************************************************************)
(* A model of ada_validator_generator.py: the AdaParser passes that build  *)
(* the catalogs (enums, subtypes, array_types, types) from an Ada          *)
(* specification, the field classification of _parse_record_fields, and    *)
(* the recursive walk of ValidationGenerator._generate_record_validation   *)
(* with its output buffer, followed by the function template.              *)
(*                                                                         *)
(* The source text is modelled after _remove_comments and                  *)
(* _normalize_whitespace as the sequence of its declarations, each one the *)
(* groups the regular expressions of _parse_types capture; a type          *)
(* specification or a field declaration is the sequence of its tokens.     *)
(* Generated lines are the strings the code formats; each line also        *)
(* carries the values it was formatted from (the loop variable, the index  *)
(* variables of its path, the depth, the fields being walked), which the   *)
(* properties read.                                                        *)
(***************************************************************************)
EXTENDS Integers, Sequences, FiniteSets, TLC

VARIABLES content, pc, enums, subtypes, array_types, types,
          request, stack, output_lines, function_code, adb_content

vars == <<content, pc, enums, subtypes, array_types, types,
          request, stack, output_lines, function_code, adb_content>>

(***************************************************************************)
(* Bounds.                                                                 *)
(***************************************************************************)
\* the interpreter's recursion limit, scaled down: the number of nested
\* _generate_record_validation calls after which RecursionError is raised
RecursionLimit == 5
\* the longest subtype chain S1 -> ... -> Sn -> A of the generated inputs
MaxChain == 3

(***************************************************************************)
(* Values.                                                                 *)
(***************************************************************************)
\* Python's None (array_bounds of a field without bounds, a text never built)
None == "<None>"

\* an empty dict
EmptyMap == [k \in {} |-> None]

\* d[k] = v
Put(d, k, v) == [x \in (DOMAIN d) \cup {k} |-> IF x = k THEN v ELSE d[x]]

RECURSIVE Join(_, _)
\* sep.join(parts)
Join(parts, sep) ==
    IF parts = << >> THEN ""
    ELSE IF Len(parts) = 1 THEN parts[1]
    ELSE parts[1] \o sep \o Join(Tail(parts), sep)

RECURSIVE Indent(_)
\* "   " * indent_level
Indent(indent_level) ==
    IF indent_level = 0 THEN "" ELSE "   " \o Indent(indent_level - 1)

(***************************************************************************)
(* Declarations of the source text, as the patterns of _parse_types see    *)
(* them.                                                                   *)
(***************************************************************************)
\* type <name> is (...);
EnumDecl(name) ==
    [kind |-> "enum", name |-> name, elem |-> None, spec |-> << >>, body |-> << >>]
\* type <name> is array (...) of <elem>;
ArrayDecl(name, elem) ==
    [kind |-> "array", name |-> name, elem |-> elem, spec |-> << >>, body |-> << >>]
\* subtype <name> is <spec>;
SubtypeDecl(name, spec) ==
    [kind |-> "subtype", name |-> name, elem |-> None, spec |-> spec, body |-> << >>]
\* type <name> is record <body> end record;
RecordDecl(name, body) ==
    [kind |-> "record", name |-> name, elem |-> None, spec |-> << >>, body |-> body]

\* the tokens of a field declaration "<name> : <type_spec>"
FieldDecl(name, spec) == <<name, ":">> \o spec
\* the tokens of "<base> (<bounds>)"
Bounded(base, bounds) == <<base, "(", bounds, ")">>

(***************************************************************************)
(* AdaParser.                                                              *)
(***************************************************************************)
AdaField(name, type_name, is_array, array_bounds) ==
    [name |-> name, type_name |-> type_name, is_array |-> is_array,
     array_bounds |-> array_bounds]

AdaRecord(name, fields) == [name |-> name, fields |-> fields]

\* the index of the first ':' of a declaration, 0 when it has none
ColonPos(decl) ==
    IF \E i \in 1..Len(decl) : decl[i] = ":"
    THEN CHOOSE i \in 1..Len(decl) :
             decl[i] = ":" /\ \A j \in 1..(i - 1) : decl[j] # ":"
    ELSE 0

\* array_match with a bounded String left to the look-ups
array_match_not_String(type_spec) ==
    /\ Len(type_spec) >= 4
    /\ type_spec[2] = "("
    /\ type_spec[4] = ")"
    /\ type_spec[1] # "String"

\* re.match(r'(\w+)\s*\(([^)]+)\)', type_spec): an identifier, then a
\* parenthesized bound list
array_match(type_spec) ==
    /\ Len(type_spec) >= 4
    /\ type_spec[2] = "("
    /\ type_spec[4] = ")"

\* is_array_by_lookup with a type found in neither catalog taken for an array
is_array_by_lookup_unknown_array(type_name, arrs, subs) ==
    IF type_name \in DOMAIN arrs THEN TRUE
    ELSE IF type_name \in DOMAIN subs
         THEN subs[type_name] \in DOMAIN arrs \/ subs[type_name] = "String"
         ELSE TRUE

\* the look-ups of a field without bounds: a direct array type, or a subtype
\* whose base is an array type or String
is_array_by_lookup(type_name, arrs, subs) ==
    IF type_name \in DOMAIN arrs THEN TRUE
    ELSE IF type_name \in DOMAIN subs
         THEN subs[type_name] \in DOMAIN arrs \/ subs[type_name] = "String"
         ELSE FALSE

\* one field declaration of a record body that has a ':'
parse_field(decl, arrs, subs) ==
    LET field_name == Join(SubSeq(decl, 1, ColonPos(decl) - 1), " ")
        type_spec  == SubSeq(decl, ColonPos(decl) + 1, Len(decl))
    IN  IF array_match(type_spec)
        THEN AdaField(field_name, type_spec[1], TRUE, type_spec[3])
        ELSE AdaField(field_name, Join(type_spec, " "),
                      is_array_by_lookup(Join(type_spec, " "), arrs, subs), None)

RECURSIVE parse_record_fields_prepend(_, _, _)
\* parse_record_fields with each field inserted at the front of the list
parse_record_fields_prepend(record_body, arrs, subs) ==
    IF record_body = << >> THEN << >>
    ELSE IF ColonPos(Head(record_body)) = 0
         THEN parse_record_fields_prepend(Tail(record_body), arrs, subs)
         ELSE parse_record_fields_prepend(Tail(record_body), arrs, subs)
              \o <<parse_field(Head(record_body), arrs, subs)>>

RECURSIVE parse_record_fields(_, _, _)
\* the fields of a record body, in the order of their declarations;
\* declarations without ':' are skipped
parse_record_fields(record_body, arrs, subs) ==
    IF record_body = << >> THEN << >>
    ELSE IF ColonPos(Head(record_body)) = 0
         THEN parse_record_fields(Tail(record_body), arrs, subs)
         ELSE <<parse_field(Head(record_body), arrs, subs)>>
              \o parse_record_fields(Tail(record_body), arrs, subs)

RECURSIVE find_enums(_)
\* the enumeration pass: self.enums.append(match.group(1)) per match
find_enums(text) ==
    IF text = << >> THEN << >>
    ELSE (IF Head(text).kind = "enum" THEN <<Head(text).name>> ELSE << >>)
         \o find_enums(Tail(text))

RECURSIVE find_subtypes(_, _)
\* the subtype pass: the base is the first identifier of the base type
find_subtypes(text, found) ==
    IF text = << >> THEN found
    ELSE find_subtypes(Tail(text),
            IF Head(text).kind = "subtype" /\ Head(text).spec # << >>
            THEN Put(found, Head(text).name, Head(text).spec[1])
            ELSE found)

RECURSIVE find_arrays(_, _)
\* the array pass: array type name -> element type
find_arrays(text, found) ==
    IF text = << >> THEN found
    ELSE find_arrays(Tail(text),
            IF Head(text).kind = "array"
            THEN Put(found, Head(text).name, Head(text).elem)
            ELSE found)

RECURSIVE find_records(_, _, _, _)
\* the record pass: each record's fields are classified as it is found
find_records(text, found, arrs, subs) ==
    IF text = << >> THEN found
    ELSE find_records(Tail(text),
            IF Head(text).kind = "record"
            THEN Put(found, Head(text).name,
                     AdaRecord(Head(text).name,
                               parse_record_fields(Head(text).body, arrs, subs)))
            ELSE found,
            arrs, subs)

RECURSIVE one_pass(_, _)
\* one pass over the text that classifies each record's fields on the
\* catalogs built from the declarations before it
one_pass(text, cat) ==
    IF text = << >> THEN cat
    ELSE one_pass(Tail(text),
            [enums       |-> cat.enums \o find_enums(<<Head(text)>>),
             subtypes    |-> find_subtypes(<<Head(text)>>, cat.subtypes),
             array_types |-> find_arrays(<<Head(text)>>, cat.array_types),
             types       |-> find_records(<<Head(text)>>, cat.types,
                                          cat.array_types, cat.subtypes)])

\* parse_types as a single pass
parse_types_one_pass(text) ==
    one_pass(text, [enums |-> << >>, subtypes |-> EmptyMap,
                    array_types |-> EmptyMap, types |-> EmptyMap])

\* the four catalogs of a text: every pass scans the whole text, and the
\* record pass runs last, on the finished array and subtype catalogs
parse_types(text) ==
    LET subs == find_subtypes(text, EmptyMap)
        arrs == find_arrays(text, EmptyMap)
    IN  [enums       |-> find_enums(text),
         subtypes    |-> subs,
         array_types |-> arrs,
         types       |-> find_records(text, EmptyMap, arrs, subs)]

(***************************************************************************)
(* Input texts.                                                            *)
(***************************************************************************)
Reverse(s) == [i \in 1..Len(s) |-> s[Len(s) + 1 - i]]

\* every textual order of a set of declarations
Orderings(decls) ==
    {f \in [1..Cardinality(decls) -> decls] :
        \A i, j \in 1..Cardinality(decls) : i # j => f[i] # f[j]}

PointDecl ==
    RecordDecl("Point", <<FieldDecl("X", <<"Integer">>), FieldDecl("Y", <<"Integer">>)>>)

\* a record that uses aliases by bounds, by array type and by subtype
ShapeDecls ==
    { ArrayDecl("Int_Array", "Integer"),
      ArrayDecl("Point_Array", "Point"),
      SubtypeDecl("Name_T", Bounded("String", "1 .. 32")),
      PointDecl,
      RecordDecl("Shape",
          <<FieldDecl("Vertices", Bounded("Point_Array", "1 .. 4")),
            FieldDecl("Label", Bounded("String", "1 .. 16")),
            FieldDecl("Name", <<"Name_T">>),
            FieldDecl("Counts", <<"Int_Array">>)>>) }

\* the scenario of the specification's section 8
ExampleText ==
    << EnumDecl("Color_Kind"),
       ArrayDecl("Int_Array", "Integer"),
       PointDecl,
       ArrayDecl("Point_Array", "Point"),
       RecordDecl("Shape",
           <<FieldDecl("Vertices", Bounded("Point_Array", "1 .. 4")),
             FieldDecl("Label", Bounded("String", "1 .. 16"))>>) >>

\* subtype chains S1 -> ... -> Sn -> Int_Array and T1 -> ... -> Tn -> String
ChainText(n) ==
    << ArrayDecl("Int_Array", "Integer") >>
    \o [i \in 1..n |->
          SubtypeDecl("S" \o ToString(i),
                      IF i = n THEN <<"Int_Array">> ELSE <<"S" \o ToString(i + 1)>>)]
    \o [i \in 1..n |->
          SubtypeDecl("T" \o ToString(i),
                      IF i = n THEN Bounded("String", "1 .. 8")
                      ELSE <<"T" \o ToString(i + 1)>>)]
    \o << RecordDecl("Msg",
              <<FieldDecl("Data", <<"S1">>),
                FieldDecl("Text", <<"T1">>),
                FieldDecl("Id", <<"Integer">>)>>) >>

\* fields whose types are in no catalog, an enumeration field, a null
\* statement
OpaqueText ==
    << EnumDecl("Color_Kind"),
       RecordDecl("Empty", << <<"null">> >>),
       RecordDecl("Sensor",
           <<FieldDecl("Kind", <<"Unknown_T">>),
             <<"null">>,
             FieldDecl("Level", <<"Integer", "range", "1 .. 10">>),
             FieldDecl("Raw", <<"String">>),
             FieldDecl("Color", <<"Color_Kind">>),
             FieldDecl("Buf", Bounded("Unknown_T", "1 .. 2"))>>) >>

\* same-named array fields of different records, nested and inlined records
NestedText ==
    << ArrayDecl("Int_Array", "Integer"),
       ArrayDecl("Row_Array", "Row"),
       RecordDecl("Row",
           <<FieldDecl("Data", <<"Int_Array">>), FieldDecl("Grid", <<"Int_Array">>)>>),
       RecordDecl("Inner",
           <<FieldDecl("Data", <<"Int_Array">>),
             FieldDecl("Grid", <<"Row_Array">>)>>),
       RecordDecl("Outer",
           <<FieldDecl("Data", <<"Int_Array">>),
             FieldDecl("Part", <<"Inner">>),
             FieldDecl("Data_1", <<"Int_Array">>),
             FieldDecl("Grid", Bounded("Row_Array", "1 .. 3"))>>) >>

\* records that reference themselves: through a scalar field, through an
\* array field, and through a cycle of two records
CyclicText ==
    << ArrayDecl("Tree_Array", "Tree"),
       ArrayDecl("Ping_Array", "Ping"),
       RecordDecl("Node",
           <<FieldDecl("Value", <<"Integer">>), FieldDecl("Next", <<"Node">>)>>),
       RecordDecl("Tree",
           <<FieldDecl("Kids", <<"Tree_Array">>), FieldDecl("Tag", <<"Integer">>)>>),
       RecordDecl("Ping", <<FieldDecl("Peer", <<"Pong">>)>>),
       RecordDecl("Pong", <<FieldDecl("Back", Bounded("Ping_Array", "1 .. 2"))>>) >>

Texts ==
    Orderings(ShapeDecls)
    \cup {ExampleText, OpaqueText, NestedText, CyclicText, << >>}
    \cup {ChainText(n) : n \in 1..MaxChain}
    \cup {Reverse(ChainText(n)) : n \in 1..MaxChain}

\* the names a caller may ask for: the records of the texts and names that
\* are no record
TypeNames ==
    {"Shape", "Point", "Msg", "Sensor", "Empty", "Outer", "Inner", "Row",
     "Node", "Tree", "Ping", "Pong", "Int_Array", "Missing"}

(***************************************************************************)
(* State after construction: AdaParser() with empty catalogs.              *)
(***************************************************************************)
Init ==
    /\ content \in Texts
    /\ pc = "start"
    /\ enums = << >>
    /\ subtypes = EmptyMap
    /\ array_types = EmptyMap
    /\ types = EmptyMap
    /\ request = None
    /\ stack = << >>
    /\ output_lines = << >>
    /\ function_code = None
    /\ adb_content = None

\* AdaParser.parse_file, after comments and whitespace are normalized
parse_file ==
    /\ pc = "start"
    /\ LET parsed == parse_types(content)
       IN  /\ enums' = parsed.enums
           /\ subtypes' = parsed.subtypes
           /\ array_types' = parsed.array_types
           /\ types' = parsed.types
    /\ pc' = "parsed"
    /\ UNCHANGED <<content, request, stack, output_lines, function_code, adb_content>>

(***************************************************************************)
(* ValidationGenerator.                                                    *)
(***************************************************************************)
\* loop_var without the field's name
loop_var_no_name(field_name, indent_level) ==
    "i_" \o ToString(indent_level)

\* loop_var without the depth
loop_var_no_depth(field_name, indent_level) ==
    "i_" \o field_name

\* f"i_{field.name}_{indent_level}"
loop_var(field_name, indent_level) ==
    "i_" \o field_name \o "_" \o ToString(indent_level)

\* the element type of an array field: the element of a direct array type,
\* Character for String, or one hop through the subtype catalog
element_type(field) ==
    IF field.type_name \in DOMAIN array_types THEN array_types[field.type_name]
    ELSE IF field.type_name = "String" THEN "Character"
    ELSE IF field.type_name \in DOMAIN subtypes
         THEN IF subtypes[field.type_name] = "String" THEN "Character"
              ELSE IF subtypes[field.type_name] \in DOMAIN array_types
                   THEN array_types[subtypes[field.type_name]]
                   ELSE field.type_name
    ELSE field.type_name

\* a line of the output buffer: text is the string appended; kind, var (the
\* loop variable of a loop header), path and idx (the path checked and the
\* loop variables indexing it), level (indent_level) and owner (the fields
\* being walked when the line was appended, outermost first) are the values
\* the text was formatted from
Line(kind, text, var, path, idx, level, owner) ==
    [kind |-> kind, text |-> text, var |-> var, path |-> path, idx |-> idx,
     level |-> level, owner |-> owner]

\* one activation of _generate_record_validation: its arguments, the index
\* of the field its loop is at, and wait: "none" while it runs, "loop" or
\* "inline" while the recursive call made for that field is running
Frame(record, base_path, indent_level, idx, owner) ==
    [record |-> record, base_path |-> base_path, indent_level |-> indent_level,
     next |-> 1, wait |-> "none", idx |-> idx, owner |-> owner]

Top == stack[Len(stack)]

\* the field the running activation is at
Current == types[Top.record].fields[Top.next]

AtField ==
    /\ pc = "walk"
    /\ Top.wait = "none"
    /\ Top.next <= Len(types[Top.record].fields)

field_path == Top.base_path \o "." \o Current.name

CurrentVar == loop_var(Current.name, Top.indent_level)

CurrentOwner == Append(Top.owner, <<Top.record, Current.name>>)

for_line ==
    Line("for",
         Indent(Top.indent_level) \o "for " \o CurrentVar \o " in "
             \o field_path \o "'Range loop",
         CurrentVar, field_path, Top.idx, Top.indent_level, CurrentOwner)

element_check_line ==
    Line("check",
         Indent(Top.indent_level) \o "   Valid := Valid AND " \o field_path
             \o "(" \o CurrentVar \o ")'Valid;",
         "", field_path \o "(" \o CurrentVar \o ")", Append(Top.idx, CurrentVar),
         Top.indent_level, CurrentOwner)

field_check_line ==
    Line("check",
         Indent(Top.indent_level) \o "Valid := Valid AND " \o field_path \o "'Valid;",
         "", field_path, Top.idx, Top.indent_level, CurrentOwner)

\* the two lines that close the loop of field f of activation fr
end_loop_lines(fr) ==
    LET f == types[fr.record].fields[fr.next]
        owner == Append(fr.owner, <<fr.record, f.name>>)
    IN  << Line("end", Indent(fr.indent_level) \o "end loop;", "", "", fr.idx,
                fr.indent_level, owner),
           Line("blank", "", "", "", fr.idx, fr.indent_level, owner) >>

\* the stack with the running activation moved to its next field
Advance == [stack EXCEPT ![Len(stack)].next = @ + 1]

\* Call that never records a loop to close
Call_never_loop(how, callee) ==
    Append([stack EXCEPT ![Len(stack)].wait = "inline"], callee)

\* the stack with the running activation suspended in a recursive call
Call(how, callee) == Append([stack EXCEPT ![Len(stack)].wait = how], callee)

\* lookup_record with a default: some record of the catalog stands in for a
\* name that is no record
lookup_record_or_default(type_name) ==
    IF type_name \notin DOMAIN types
    THEN IF DOMAIN types = {} THEN None ELSE CHOOSE r \in DOMAIN types : TRUE
    ELSE type_name

\* the record generate_validation_function works on: the requested name when
\* it is a key of parser.types, None (ValueError) otherwise
lookup_record(type_name) ==
    IF type_name \notin DOMAIN types THEN None ELSE type_name

signature(type_name) ==
    "function Is_Valid (Input : " \o type_name \o ") return Boolean is\n"
    \o "   Valid : Boolean;\n"
    \o "begin\n"
    \o "   Valid := True;\n\n"

\* generate_adb_file(type_name, ...) up to the first recursive walk step:
\* ValueError for a name that is no record, else the signature and the
\* call _generate_record_validation(record, "Input", all_code, 1)
generate_adb_file ==
    /\ pc = "parsed"
    /\ \E type_name \in TypeNames :
         /\ request' = type_name
         /\ IF lookup_record(type_name) = None
            THEN /\ pc' = "ValueError"
                 /\ UNCHANGED <<stack, function_code>>
            ELSE /\ pc' = "walk"
                 /\ function_code' = signature(type_name)
                 /\ stack' = <<Frame(lookup_record(type_name), "Input", 1, << >>, << >>)>>
    /\ UNCHANGED <<content, enums, subtypes, array_types, types, output_lines,
                   adb_content>>

\* a field that is no array and no record: one direct check
check_field ==
    /\ AtField
    /\ ~Current.is_array
    /\ Current.type_name \notin DOMAIN types
    /\ output_lines' = Append(output_lines, field_check_line)
    /\ stack' = Advance
    /\ UNCHANGED <<content, pc, enums, subtypes, array_types, types, request,
                   function_code, adb_content>>

\* a field that is no array and whose type is a record: the recursive call
\* at the same indent_level
inline_record ==
    /\ AtField
    /\ ~Current.is_array
    /\ Current.type_name \in DOMAIN types
    /\ Len(stack) < RecursionLimit
    /\ stack' = Call("inline",
                     Frame(Current.type_name, field_path, Top.indent_level,
                           Top.idx, CurrentOwner))
    /\ UNCHANGED <<content, pc, enums, subtypes, array_types, types, request,
                   output_lines, function_code, adb_content>>

\* an array field whose element type is no record: the loop, one check of
\* the indexed element, the end of the loop and an empty line
loop_over_elements ==
    /\ AtField
    /\ Current.is_array
    /\ element_type(Current) \notin DOMAIN types
    /\ output_lines' = output_lines \o <<for_line, element_check_line>>
                                    \o end_loop_lines(Top)
    /\ stack' = Advance
    /\ UNCHANGED <<content, pc, enums, subtypes, array_types, types, request,
                   function_code, adb_content>>

\* an array field whose element type is a record: the loop header, then the
\* recursive call at indent_level + 1 on the indexed path
loop_over_records ==
    /\ AtField
    /\ Current.is_array
    /\ element_type(Current) \in DOMAIN types
    /\ Len(stack) < RecursionLimit
    /\ output_lines' = Append(output_lines, for_line)
    /\ stack' = Call("loop",
                     Frame(element_type(Current),
                           field_path \o "(" \o CurrentVar \o ")",
                           Top.indent_level + 1,
                           Append(Top.idx, CurrentVar), CurrentOwner))
    /\ UNCHANGED <<content, pc, enums, subtypes, array_types, types, request,
                   function_code, adb_content>>

\* a recursive call beyond the interpreter's recursion limit: RecursionError
\* unwinds every activation, and the locals of generate_validation_function
\* (all_code, function_code) are lost
recursion_error ==
    /\ AtField
    /\ \/ ~Current.is_array /\ Current.type_name \in DOMAIN types
       \/ Current.is_array /\ element_type(Current) \in DOMAIN types
    /\ Len(stack) >= RecursionLimit
    /\ pc' = "RecursionError"
    /\ stack' = << >>
    /\ output_lines' = << >>
    /\ function_code' = None
    /\ UNCHANGED <<content, enums, subtypes, array_types, types, request,
                   adb_content>>

\* the end of a recursive call: the caller closes its loop if the call was
\* made for an array field, and goes on with its next field
return_to_caller ==
    /\ pc = "walk"
    /\ Len(stack) > 1
    /\ Top.next > Len(types[Top.record].fields)
    /\ LET caller == stack[Len(stack) - 1]
           rest == SubSeq(stack, 1, Len(stack) - 1)
       IN  /\ output_lines' =
                 IF caller.wait = "loop"
                 THEN output_lines \o end_loop_lines(caller)
                 ELSE output_lines
           /\ stack' = [rest EXCEPT ![Len(rest)].next = @ + 1,
                                    ![Len(rest)].wait = "none"]
    /\ UNCHANGED <<content, pc, enums, subtypes, array_types, types, request,
                   function_code, adb_content>>

\* the end of the outermost call: generate_validation_function joins the
\* lines and adds the return, generate_adb_file adds its heading
finish ==
    /\ pc = "walk"
    /\ Len(stack) = 1
    /\ Top.next > Len(types[Top.record].fields)
    /\ LET body == function_code
                   \o (IF output_lines # << >>
                       THEN Join([i \in 1..Len(output_lines) |-> output_lines[i].text], "\n")
                       ELSE "")
                   \o "\n   return Valid;\n"
                   \o "end Is_Valid;\n"
       IN  /\ function_code' = body
           /\ adb_content' =
                 "-- Generated validation function for " \o request \o "\n"
                 \o "-- This file contains a validation function template\n\n"
                 \o "-- Add this function to your package body:\n\n"
                 \o body
    /\ stack' = << >>
    /\ pc' = "done"
    /\ UNCHANGED <<content, enums, subtypes, array_types, types, request,
                   output_lines>>

Next ==
    \/ parse_file
    \/ generate_adb_file
    \/ check_field
    \/ inline_record
    \/ loop_over_elements
    \/ loop_over_records
    \/ recursion_error
    \/ return_to_caller
    \/ finish

Spec == Init /\ [][Next]_vars

(***************************************************************************)
(* Properties.                                                             *)
(***************************************************************************)
Range(s) == {s[i] : i \in 1..Len(s)}

Parsed == pc # "start"

\* the classified fields of every record of the catalog, as <<record, field>>
ClassifiedFields ==
    UNION {{<<r, f>> : f \in Range(types[r].fields)} : r \in DOMAIN types}

\* the indices of the output lines appended for field fname of record r
LinesOf(r, fname) ==
    {k \in 1..Len(output_lines) :
        /\ output_lines[k].owner # << >>
        /\ output_lines[k].owner[Len(output_lines[k].owner)] = <<r, fname>>}

\* C1: a request for a name that is no key of the record catalog ends in
\* ValueError, and no line, no function text and no file text is produced.
C1_UnknownTypeFails ==
    (pc \notin {"start", "parsed"} /\ request \notin DOMAIN types)
        => /\ pc = "ValueError"
           /\ stack = << >>
           /\ output_lines = << >>
           /\ function_code = None
           /\ adb_content = None

C1_Witness ==
    /\ pc = "ValueError"
    /\ request = "Missing"
    /\ DOMAIN types # {}

\* the fields <<r, f>> declared "f : String (bounds)" in the text
StringBounded(r, f) ==
    \E d \in Range(content) :
        /\ d.kind = "record"
        /\ d.name = r
        /\ \E b \in Range(d.body) :
             /\ Len(b) = 6
             /\ b[1] = f.name
             /\ SubSeq(b, 3, 6) = Bounded("String", b[5])

\* C2 as claimed: a field declared String with a bound list is scalar, and
\* no loop is emitted for it.
C2_StringBoundedIsScalar ==
    Parsed =>
        \A rf \in ClassifiedFields :
            StringBounded(rf[1], rf[2])
                => /\ ~rf[2].is_array
                   /\ \A k \in LinesOf(rf[1], rf[2].name) : output_lines[k].kind = "check"

\* C2 amended: a field declared String with a bound list is an array field
\* that keeps its bounds, and (no record being named Character) each time
\* the walk passes it the lines emitted are a loop over the field's range,
\* one check of the indexed element, the end of the loop and an empty line;
\* no direct check of the field itself.
C2_StringBoundedIsArray ==
    (Parsed /\ "Character" \notin DOMAIN types) =>
        \A rf \in ClassifiedFields :
            StringBounded(rf[1], rf[2])
                => /\ rf[2].is_array
                   /\ rf[2].type_name = "String"
                   /\ rf[2].array_bounds # None
                   /\ \A k \in LinesOf(rf[1], rf[2].name) :
                        LET l == output_lines[k]
                        IN  /\ l.kind = "for" =>
                                /\ l.var = loop_var(rf[2].name, l.level)
                                /\ l.text = Indent(l.level) \o "for " \o l.var \o " in "
                                               \o l.path \o "'Range loop"
                                /\ k + 3 <= Len(output_lines)
                                /\ output_lines[k + 1].kind = "check"
                                /\ output_lines[k + 1].text =
                                       Indent(l.level) \o "   Valid := Valid AND "
                                           \o l.path \o "(" \o l.var \o ")'Valid;"
                                /\ output_lines[k + 2].kind = "end"
                                /\ output_lines[k + 3].kind = "blank"
                            /\ l.kind = "check" =>
                                /\ k > 1
                                /\ output_lines[k - 1].kind = "for"
                                /\ output_lines[k - 1].owner = l.owner
                            /\ l.kind = "end" => k > 2 /\ output_lines[k - 2].kind = "for"
                            /\ l.kind = "blank" => k > 3 /\ output_lines[k - 3].kind = "for"

C2_Witness ==
    /\ pc = "done"
    /\ request = "Shape"
    /\ \E k \in 1..Len(output_lines) :
         /\ output_lines[k].text = "   for i_Label_1 in Input.Label'Range loop"
         /\ output_lines[k + 1].text = "      Valid := Valid AND Input.Label(i_Label_1)'Valid;"

RECURSIVE ChainEndsInArray(_, _)
\* the subtype chain from t reaches an array type or String in at most
\* fuel + 1 hops
ChainEndsInArray(t, fuel) ==
    /\ t \in DOMAIN subtypes
    /\ \/ subtypes[t] \in DOMAIN array_types
       \/ subtypes[t] = "String"
       \/ fuel > 0 /\ ChainEndsInArray(subtypes[t], fuel - 1)

\* C3: a field without bounds whose nominal type reaches an array type or
\* String through a subtype chain of any length is classified as an array.
C3_ChainIsArray ==
    Parsed =>
        \A rf \in ClassifiedFields :
            (rf[2].array_bounds = None
             /\ ChainEndsInArray(rf[2].type_name, Cardinality(DOMAIN subtypes)))
                => rf[2].is_array

\* C4: the recursion is bounded by the structure: no record is being walked
\* twice at once, and the walk never exhausts the interpreter's stack.
C4_RecursionBounded ==
    /\ \A i, j \in 1..Len(stack) : i # j => stack[i].record # stack[j].record
    /\ pc # "RecursionError"

\* the classified field named n of record r
FieldNamed(r, n) == CHOOSE f \in Range(types[r].fields) : f.name = n

ForLines == {k \in 1..Len(output_lines) : output_lines[k].kind = "for"}

\* the field a loop header was emitted for
FieldId(k) == output_lines[k].owner[Len(output_lines[k].owner)]

\* the loop of header i is still open at the later header j
Encloses(i, j) ==
    /\ i < j
    /\ \A m \in (i + 1)..(j - 1) :
         ~(output_lines[m].kind = "end" /\ output_lines[m].owner = output_lines[i].owner)

\* C5 as claimed: two distinct array fields at the same depth, or one nested
\* in the other's loop, get distinct loop variables.
C5_DistinctFieldsDistinctVars ==
    \A i, j \in ForLines :
        (/\ i < j
         /\ FieldId(i) # FieldId(j)
         /\ \/ output_lines[i].level = output_lines[j].level
            \/ Encloses(i, j))
            => output_lines[i].var # output_lines[j].var

\* C5 amended: two array fields at the same depth get distinct loop
\* variables exactly when their field names differ (same-named array fields
\* of different records at one depth share the variable), and an array field
\* nested in another array field's loop gets a variable distinct from it.
C5_DistinctNamesDistinctVars ==
    \A i, j \in ForLines :
        /\ (i < j /\ output_lines[i].level = output_lines[j].level)
              => ((FieldId(i)[2] # FieldId(j)[2])
                     <=> (output_lines[i].var # output_lines[j].var))
        /\ Encloses(i, j) => output_lines[i].var # output_lines[j].var

C5_Witness ==
    /\ pc = "done"
    /\ request = "Outer"
    /\ \E i, j, k \in ForLines :
         /\ output_lines[i].text = "   for i_Data_1 in Input.Data'Range loop"
         /\ output_lines[j].text = "   for i_Data_1_1 in Input.Data_1'Range loop"
         /\ output_lines[k].text = "      for i_Grid_2 in Input.Grid(i_Grid_1).Grid'Range loop"

\* the depth of the lines emitted for the k-th field of an owner chain: one
\* more than the array fields before it
OwnerDepth(o, k) ==
    1 + Cardinality({j \in 1..(k - 1) : FieldNamed(o[j][1], o[j][2]).is_array})

RECURSIVE OwnerPath(_, _)
\* the path the walk has built after descending through the first k fields
\* of an owner chain
OwnerPath(o, k) ==
    IF k = 0 THEN "Input"
    ELSE OwnerPath(o, k - 1) \o "." \o o[k][2]
         \o (IF FieldNamed(o[k][1], o[k][2]).is_array
             THEN "(" \o loop_var(o[k][2], OwnerDepth(o, k)) \o ")"
             ELSE "")

LinesOwnedBy(o) == {m \in 1..Len(output_lines) : output_lines[m].owner = o}

\* the recursive call made for the field with owner chain o is still running
StillInside(o) ==
    \E s \in 1..Len(stack) :
        /\ Len(stack[s].owner) >= Len(o)
        /\ SubSeq(stack[s].owner, 1, Len(o)) = o

\* C6: in the output, a scalar field whose type is a known record has no
\* line of its own: its record's lines are at the same depth, on the path
\* extended by the field. An array field whose element type is a known
\* record has exactly one loop header over its range before its record's
\* lines, which are one level deeper on the path indexed by the loop's
\* variable, and its 'end loop' after them; a header is without its
\* 'end loop' only while the walk of its record is still running.
C6_InlineOrLoop ==
    /\ \A k \in 1..Len(output_lines) :
         LET l == output_lines[k]
             o == l.owner
             n == Len(o)
             fpath == OwnerPath(o, n - 1) \o "." \o o[n][2]
         IN  /\ l.level = OwnerDepth(o, n)
             /\ l.kind = "for" => l.path = fpath
             /\ l.kind = "check" =>
                    /\ l.path = IF FieldNamed(o[n][1], o[n][2]).is_array
                                THEN OwnerPath(o, n) ELSE fpath
                    /\ l.text = Indent(l.level)
                                   \o (IF FieldNamed(o[n][1], o[n][2]).is_array
                                       THEN "   " ELSE "")
                                   \o "Valid := Valid AND " \o l.path \o "'Valid;"
             /\ \A p \in 1..(n - 1) :
                  LET f == FieldNamed(o[p][1], o[p][2])
                      anc == SubSeq(o, 1, p)
                  IN  IF ~f.is_array
                      THEN /\ o[p + 1][1] = f.type_name
                           /\ LinesOwnedBy(anc) = {}
                      ELSE /\ o[p + 1][1] = element_type(f)
                           /\ \E a \in 1..(k - 1) :
                                /\ output_lines[a].kind = "for"
                                /\ output_lines[a].text =
                                      Indent(OwnerDepth(o, p)) \o "for "
                                         \o loop_var(o[p][2], OwnerDepth(o, p))
                                         \o " in " \o OwnerPath(o, p - 1) \o "."
                                         \o o[p][2] \o "'Range loop"
                                /\ {m \in LinesOwnedBy(anc) : output_lines[m].kind = "for"} = {a}
                           /\ \A m \in LinesOwnedBy(anc) :
                                output_lines[m].kind # "for" => m > k
    /\ \A a \in ForLines :
         IF StillInside(output_lines[a].owner)
         THEN \A m \in LinesOwnedBy(output_lines[a].owner) : output_lines[m].kind = "for"
         ELSE \E e \in (a + 1)..Len(output_lines) :
                 /\ output_lines[e].kind = "end"
                 /\ output_lines[e].text = Indent(output_lines[a].level) \o "end loop;"
                 /\ {m \in LinesOwnedBy(output_lines[a].owner) :
                        output_lines[m].kind = "end"} = {e}

C6_Witness ==
    /\ pc = "done"
    /\ request = "Outer"
    /\ \E k \in 1..Len(output_lines) :
         /\ output_lines[k].text =
               "      for i_Data_2 in Input.Part.Grid(i_Grid_1).Data'Range loop"
         /\ output_lines[k].owner = << <<"Outer", "Part">>, <<"Inner", "Grid">>,
                                       <<"Row", "Data">> >>
         /\ output_lines[k - 1].text = "   for i_Grid_1 in Input.Part.Grid'Range loop"

\* the position of field n among the declarations of record r in the text
DeclPos(r, n) ==
    LET d == CHOOSE d \in Range(content) : d.kind = "record" /\ d.name = r
    IN  CHOOSE i \in 1..Len(d.body) : ColonPos(d.body[i]) > 0 /\ d.body[i][1] = n

\* C7: of two lines emitted for different fields of one activation of a
\* record (directly or in a nested expansion), the line of the field
\* declared first is appended first.
C7_FieldOrder ==
    \A i, j \in 1..Len(output_lines) :
        i < j =>
            LET a == output_lines[i].owner
                b == output_lines[j].owner
            IN  \A k \in 1..Len(a) :
                    (k <= Len(b) /\ SubSeq(a, 1, k - 1) = SubSeq(b, 1, k - 1) /\ a[k] # b[k])
                        => /\ a[k][1] = b[k][1]
                           /\ DeclPos(a[k][1], a[k][2]) < DeclPos(b[k][1], b[k][2])

C7_Witness ==
    /\ pc = "done"
    /\ request = "Sensor"
    /\ Len(output_lines) = 8
    /\ output_lines[1].owner = << <<"Sensor", "Kind">> >>
    /\ output_lines[2].owner = << <<"Sensor", "Level">> >>
    /\ DeclPos("Sensor", "Level") = 3

\* a field without bounds whose type is in none of the catalogs
Opaque(f) ==
    /\ f.array_bounds = None
    /\ f.type_name \notin (DOMAIN array_types \cup DOMAIN subtypes \cup DOMAIN types)

IsDirectCheck(l, base_path, indent_level, name) ==
    /\ l.kind = "check"
    /\ l.text = Indent(indent_level) \o "Valid := Valid AND " \o base_path \o "."
                   \o name \o "'Valid;"

\* C8: a field without bounds whose type is in none of the catalogs is
\* classified as scalar, and every activation that has passed it has
\* appended exactly one line for it, the direct check of its path; the walk
\* of a record made of such fields ends without an error.
C8_OpaqueIsChecked ==
    Parsed =>
        /\ \A rf \in ClassifiedFields : Opaque(rf[2]) => ~rf[2].is_array
        /\ \A s \in 1..Len(stack) :
             \A i \in 1..(stack[s].next - 1) :
                 LET f == types[stack[s].record].fields[i]
                     mine == LinesOwnedBy(Append(stack[s].owner, <<stack[s].record, f.name>>))
                 IN  Opaque(f) =>
                        /\ Cardinality(mine) = 1
                        /\ \A m \in mine :
                             IsDirectCheck(output_lines[m], stack[s].base_path,
                                           stack[s].indent_level, f.name)
        /\ (pc \in {"walk", "done"} /\ \A f \in Range(types[request].fields) : Opaque(f))
              => /\ pc = "done" => Len(output_lines) = Len(types[request].fields)
                 /\ \A m \in 1..Len(output_lines) :
                      IsDirectCheck(output_lines[m], "Input", 1,
                                    types[request].fields[m].name)

C8_Witness ==
    /\ pc = "walk"
    /\ request = "Sensor"
    /\ Top.next = 4
    /\ output_lines[1].text = "   Valid := Valid AND Input.Kind'Valid;"
    /\ output_lines[2].text = "   Valid := Valid AND Input.Level'Valid;"
    /\ output_lines[3].text = "   Valid := Valid AND Input.Raw'Valid;"

Declared(kind) == {d \in Range(content) : d.kind = kind}

DeclaredNames(kind) == {d.name : d \in Declared(kind)}

TheDecl(kind, n) == CHOOSE d \in Declared(kind) : d.name = n

\* the classification of a raw field declaration on the declarations of the
\* whole text, whatever their order
ClassifiedOnWholeText(b) ==
    LET spec == SubSeq(b, ColonPos(b) + 1, Len(b))
        bounded == Len(spec) >= 4 /\ spec[2] = "(" /\ spec[4] = ")"
        nominal == IF bounded THEN spec[1] ELSE Join(spec, " ")
    IN  [name |-> Join(SubSeq(b, 1, ColonPos(b) - 1), " "),
         type_name |-> nominal,
         array_bounds |-> IF bounded THEN spec[3] ELSE None,
         is_array |->
             \/ bounded
             \/ nominal \in DeclaredNames("array")
             \/ /\ nominal \in DeclaredNames("subtype")
                /\ TheDecl("subtype", nominal).spec[1]
                       \in (DeclaredNames("array") \cup {"String"})]

\* C9: whatever the textual order of the declarations, the array map, the
\* subtype map and every record's classified field list are those of the set
\* of declarations: an alias declared after the record that uses it makes
\* the field an array all the same.
C9_OrderIndependent ==
    Parsed =>
        /\ DOMAIN array_types = DeclaredNames("array")
        /\ \A n \in DOMAIN array_types : array_types[n] = TheDecl("array", n).elem
        /\ DOMAIN subtypes = DeclaredNames("subtype")
        /\ \A n \in DOMAIN subtypes : subtypes[n] = TheDecl("subtype", n).spec[1]
        /\ DOMAIN types = DeclaredNames("record")
        /\ \A r \in DOMAIN types :
             LET decls == SelectSeq(TheDecl("record", r).body, LAMBDA b : ColonPos(b) > 0)
             IN  /\ types[r].name = r
                 /\ Len(types[r].fields) = Len(decls)
                 /\ \A i \in 1..Len(decls) :
                      types[r].fields[i] = ClassifiedOnWholeText(decls[i])

C9_Witness ==
    /\ pc = "parsed"
    /\ Len(content) = 5
    /\ "Shape" \in DOMAIN types
    /\ content[1].name = "Shape"
    /\ content[5].name = "Int_Array"
    /\ content[4].name = "Name_T"
    /\ types["Shape"].fields[3] = AdaField("Name", "Name_T", TRUE, None)
    /\ types["Shape"].fields[4] = AdaField("Counts", "Int_Array", TRUE, None)

RECURSIVE OpenLoops(_)
\* the loop headers of a prefix of the output whose 'end loop' is not in it,
\* outermost first
OpenLoops(lines) ==
    IF lines = << >> THEN << >>
    ELSE LET before == OpenLoops(SubSeq(lines, 1, Len(lines) - 1))
             l == lines[Len(lines)]
         IN  IF l.kind = "for" THEN Append(before, l)
             ELSE IF l.kind = "end" THEN SubSeq(before, 1, Len(before) - 1)
             ELSE before

\* C10: after every line of the output, the loops opened and not yet closed
\* have pairwise distinct variables and strictly growing depths, outermost
\* first, and every variable that indexes the path of a loop header or of a
\* check is the variable of a loop open at that line.
C10_OpenLoopsDistinct ==
    \A k \in 1..Len(output_lines) :
        LET open == OpenLoops(SubSeq(output_lines, 1, k))
        IN  /\ \A a, b \in 1..Len(open) :
                 a < b => /\ open[a].var # open[b].var
                          /\ open[a].level < open[b].level
            /\ output_lines[k].kind \in {"for", "check"} =>
                 Range(output_lines[k].idx) \subseteq {open[a].var : a \in 1..Len(open)}

C10_Witness ==
    /\ pc = "walk"
    /\ request = "Outer"
    /\ Len(OpenLoops(output_lines)) = 1
    /\ \E k \in 1..Len(output_lines) :
         /\ output_lines[k].text =
               "         Valid := Valid AND Input.Part.Grid(i_Grid_1).Grid(i_Grid_2)'Valid;"
         /\ output_lines[k].idx = <<"i_Grid_1", "i_Grid_2">>
====
